---- MODULE Spec2Model ----
(***************************************************************************)
(* A model of git-weekly-report.py: the log parser, the stat fetcher, the  *)
(* message enhancer, the categorizer, the report builder and main().       *)
(*                                                                         *)
(* Text is modelled as Python sees it: a str is a sequence of one-char     *)
(* strings (a CJK character is written by its code point, "U+4FEE"), so    *)
(* that strip, split, lower, substring tests and string comparison are     *)
(* computed, not assumed.  External collaborators (the git binary, the     *)
(* HTTP API) are scripts of outcomes in env; every invocation is recorded  *)
(* in world together with what was printed, written and raised.            *)
(***************************************************************************)
EXTENDS Integers, Sequences, FiniteSets, TLC

VARIABLES
    pc,       \* which operation is about to run, or "done"
    args,     \* argparse namespace plus the OPENROUTER_API_KEY environment value
    self,     \* the GitWeeklyReport object (use_llm, llm, author)
    commits,  \* the commit sequence the operation works on
    lines,    \* the lines the external tool writes to stdout (before joining)
    result,   \* the value the last operation returned
    env,      \* scripted outcomes of the external tool and of the HTTP API
    world     \* observable effects: gitCalls, netCalls, printed, written, raised

vars == <<pc, args, self, commits, lines, result, env, world>>

\* Python's None where a str is expected (no str is this one-element sequence)
None == <<"<None>">>

\* truth value of an Optional[str]: None and "" are false
Truthy(x) == x # None /\ x # <<>>

\* `a or b` on Optional[str]
Or(a, b) == IF Truthy(a) THEN a ELSE b

\* ------------------------------------------------------------------ bounds

MaxCommits == 3
MaxLines == 3
MaxReportCommits == 3
MaxStatCommits == 2
MaxEnhCommits == 2
MaxFetched == 2

\* ------------------------------------------------------------- python str

\* Bind(v, Op) is Op applied to the value of v.  TLC passes an operator's
\* arguments unevaluated and may evaluate them again at every use; a bound
\* variable holds a value, so loops that thread an accumulator bind it first.
Bind(v, Op(_)) == CHOOSE y \in {Op(x) : x \in {v}} : TRUE

Range(s) == {s[i] : i \in 1..Len(s)}

SeqsUpTo(S, n) == UNION {[1..k -> S] : k \in 0..n}

UpperToLower ==
    [A |-> "a", B |-> "b", C |-> "c", D |-> "d", E |-> "e", F |-> "f", G |-> "g",
     H |-> "h", I |-> "i", J |-> "j", K |-> "k", L |-> "l", M |-> "m", N |-> "n",
     O |-> "o", P |-> "p", Q |-> "q", R |-> "r", S |-> "s", T |-> "t", U |-> "u",
     V |-> "v", W |-> "w", X |-> "x", Y |-> "y", Z |-> "z"]

\* str.lower(): cased ASCII letters are folded, every other character is kept
Lower(s) == [i \in 1..Len(s) |-> IF s[i] \in DOMAIN UpperToLower THEN UpperToLower[s[i]] ELSE s[i]]

\* `sub in s`
Contains(sub, s) == \E i \in 1..(Len(s) - Len(sub) + 1) : SubSeq(s, i, i + Len(sub) - 1) = sub

Whitespace == {" ", "\n", "\t", "\r"}

RECURSIVE LStrip(_)
LStrip(s) == IF s # <<>> /\ Head(s) \in Whitespace THEN LStrip(Tail(s)) ELSE s

RECURSIVE RStrip(_)
RStrip(s) == IF s # <<>> /\ s[Len(s)] \in Whitespace THEN RStrip(SubSeq(s, 1, Len(s) - 1)) ELSE s

\* str.strip()
Strip(s) == RStrip(LStrip(s))

\* index of the first occurrence of character c in s, 0 when there is none
FirstIndex(c, s) == IF c \in Range(s) THEN CHOOSE i \in 1..Len(s) : s[i] = c /\ \A j \in 1..(i - 1) : s[j] # c ELSE 0

\* str.split(sep, maxsplit) for a one-character sep; maxsplit < 0 means no limit
RECURSIVE Split(_, _, _)
Split(s, sep, maxsplit) ==
    Bind(FirstIndex(sep, s), LAMBDA i :
        IF maxsplit = 0 \/ i = 0 THEN <<s>>
        ELSE <<SubSeq(s, 1, i - 1)>>
             \o Bind(SubSeq(s, i + 1, Len(s)), LAMBDA rest : Split(rest, sep, maxsplit - 1)))

\* sep.join(parts) for a one-character sep
RECURSIVE Join(_, _)
Join(parts, sep) ==
    IF parts = <<>> THEN <<>>
    ELSE IF Len(parts) = 1 THEN parts[1]
    ELSE parts[1] \o <<sep>> \o Join(Tail(parts), sep)

\* ------------------------------------------------- environment and effects

\* The outcome the environment has scripted for the k-th call; a script shorter
\* than the run repeats its last outcome.
ScriptAt(script, k) == script[IF k <= Len(script) THEN k ELSE Len(script)]

\* subprocess.run(cmd, ...): the invocation is recorded, the outcome is the script's
GitOutcome(e, w) == ScriptAt(e.git, Len(w.gitCalls) + 1)

GitRun(w, cmd) == [w EXCEPT !.gitCalls = Append(@, cmd)]

Say(w, msg) == [w EXCEPT !.printed = Append(@, msg)]

Raise(w, exc) == [w EXCEPT !.raised = exc]

\* LLMEnhancer.__init__: the flag's key, else the environment variable's
LLMEnhancer(api_key, env_key) == [is_none |-> FALSE, api_key |-> Or(api_key, env_key)]

NoLLM == [is_none |-> TRUE, api_key |-> None]

\* GitWeeklyReport.__init__
GitWeeklyReport(use_llm, api_key, env_key, author) ==
    [use_llm |-> use_llm,
     llm |-> IF use_llm THEN LLMEnhancer(api_key, env_key) ELSE NoLLM,
     author |-> author]

\* --------------------------------------------------------- history fetcher

\* line.split('|') without the maxsplit
LogFields_NoMaxsplit(line) == Split(line, "|", -1)

\* line.split('|', 3)
LogFields(line) == Split(line, "|", 3)

RECURSIVE ParseLogLines(_)
ParseLogLines(ls) ==
    IF ls = <<>> THEN <<>>
    ELSE LET line == Head(ls) IN
         Bind(LogFields(line), LAMBDA parts :
             IF line # <<>> /\ Len(parts) = 4
             THEN << [hash |-> parts[1], author |-> parts[2], date |-> parts[3], message |-> parts[4]] >>
             ELSE <<>>) \o ParseLogLines(Tail(ls))

\* get_commits_last_week: [ret, w]
GetCommitsLastWeek(slf, e, w) ==
    LET o == GitOutcome(e, w)
        w1 == GitRun(w, [sub |-> "log", arg |-> IF Truthy(slf.author) THEN slf.author ELSE None])
    IN  CASE o.kind = "nonzero" -> [ret |-> <<>>, w |-> Say(w1, "git log failed")]
          [] o.kind = "missing" -> [ret |-> <<>>, w |-> Say(w1, "git not found")]
          [] OTHER -> Bind(Split(Strip(o.stdout), "\n", -1), LAMBDA ls :
                          [ret |-> ParseLogLines(ls), w |-> w1])

\* ------------------------------------------------------------ author list

\* code-point order of the characters the inputs use
CharOrder ==
    <<"\t", "\n", "\r", " ", "(", ")", "+", ",", "-", ".",
      "0", "1", "2", "3", "4", "5", "6", "7", "8", "9",
      "A", "B", "C", "D", "E", "F", "G", "H", "I", "J", "K", "L", "M",
      "N", "O", "P", "Q", "R", "S", "T", "U", "V", "W", "X", "Y", "Z",
      "a", "b", "c", "d", "e", "f", "g", "h", "i", "j", "k", "l", "m",
      "n", "o", "p", "q", "r", "s", "t", "u", "v", "w", "x", "y", "z", "|",
      "U+4F18", "U+4FEE", "U+51B3", "U+52A0", "U+5316", "U+589E", "U+590D",
      "U+6587", "U+660E", "U+6784", "U+6863", "U+65B0", "U+6D4B", "U+6DFB",
      "U+89E3", "U+8BD5", "U+8BF4", "U+91CD">>

Ord(c) == CHOOSE i \in 1..Len(CharOrder) : CharOrder[i] = c

\* a < b on str
RECURSIVE StrLess(_, _)
StrLess(a, b) ==
    IF b = <<>> THEN FALSE
    ELSE IF a = <<>> THEN TRUE
    ELSE IF Head(a) = Head(b) THEN StrLess(Tail(a), Tail(b))
    ELSE Ord(Head(a)) < Ord(Head(b))

\* the sorted list xs with x inserted at its place
RECURSIVE Insert(_, _, _)
Insert(x, xs, descending) ==
    IF xs = <<>> THEN <<x>>
    ELSE IF (IF descending THEN StrLess(Head(xs), x) ELSE StrLess(x, Head(xs)))
         THEN <<x>> \o xs
         ELSE <<Head(xs)>> \o Insert(x, Tail(xs), descending)

\* sorted(xs) on distinct strs
RECURSIVE SortedAscending(_)
SortedAscending(xs) ==
    IF xs = <<>> THEN <<>>
    ELSE Bind(SortedAscending(Tail(xs)), LAMBDA rest : Insert(Head(xs), rest, FALSE))

\* sorted(xs, reverse=True) on distinct strs
RECURSIVE SortedDescending(_)
SortedDescending(xs) ==
    IF xs = <<>> THEN <<>>
    ELSE Bind(SortedDescending(Tail(xs)), LAMBDA rest : Insert(Head(xs), rest, TRUE))

\* some enumeration of a finite set of strs
RECURSIVE SetToSeq(_)
SetToSeq(S) == IF S = {} THEN <<>> ELSE LET x == CHOOSE x \in S : TRUE IN <<x>> \o SetToSeq(S \ {x})

\* get_all_authors.  The command runs through the shell as `git log ... | sort |
\* uniq`: the pipeline's status is uniq's, so a git that is missing or fails
\* shows only as empty output and CalledProcessError is never raised for it.
GetAllAuthors(slf, e, w) ==
    LET o == GitOutcome(e, w)
        w1 == GitRun(w, [sub |-> "authors", arg |-> None])
        gitOut == IF o.kind = "ok" THEN o.stdout ELSE <<>>
    IN  Bind(Split(gitOut, "\n", -1), LAMBDA gitLines :
        Bind(Join(SortedAscending(SetToSeq(Range(gitLines))), "\n"), LAMBDA piped :
        Bind(Split(Strip(piped), "\n", -1), LAMBDA ls :
        Bind(SetToSeq({Strip(l) : l \in Range(ls)} \ {<<>>}), LAMBDA authors :
            [ret |-> SortedAscending(authors), w |-> w1]))))

\* ------------------------------------------------------------ stat fetcher

Digits == {"0", "1", "2", "3", "4", "5", "6", "7", "8", "9"}

RECURSIVE ToInt(_)
ToInt(ds) == IF ds = <<>> THEN 0 ELSE 10 * ToInt(SubSeq(ds, 1, Len(ds) - 1)) + (Ord(ds[Len(ds)]) - Ord("0"))

\* the positions q where a match of (\d+)\s+<word> can end its group 1: a
\* digit, followed by one or more whitespace characters, followed by the word
GroupEnds(word, line) ==
    {q \in 1..Len(line) :
        /\ line[q] \in Digits
        /\ \E r \in (q + 1)..(Len(line) - Len(word)) :
              /\ \A i \in (q + 1)..r : line[i] \in Whitespace
              /\ SubSeq(line, r + 1, r + Len(word)) = word}

\* re.search(r'(\d+)\s+<word>', line): group 1 of the leftmost match as an int,
\* -1 for no match.  \d+ is greedy and must be followed by whitespace, so the
\* leftmost match starts where the digit run of the first group end starts.
SearchNumber(word, line) ==
    LET ends == GroupEnds(word, line) IN
    IF ends = {} THEN -1
    ELSE LET q == CHOOSE x \in ends : \A y \in ends : x <= y
             p == CHOOSE x \in 1..q :
                     /\ \A i \in x..q : line[i] \in Digits
                     /\ (x = 1 \/ line[x - 1] \notin Digits)
         IN  ToInt(SubSeq(line, p, q))

ZeroStats == [files_changed |-> 0, insertions |-> 0, deletions |-> 0]

RECURSIVE ParseStatLines(_, _)
ParseStatLines(stats, ls) ==
    IF ls = <<>> THEN stats
    ELSE LET line == Head(ls) IN
         IF Contains(<<" ","f","i","l","e">>, line) /\ Contains(<<"c","h","a","n","g","e","d">>, line)
         THEN Bind(<<SearchNumber(<<"f","i","l","e">>, line),
                     SearchNumber(<<"i","n","s","e","r","t","i","o","n">>, line),
                     SearchNumber(<<"d","e","l","e","t","i","o","n">>, line)>>, LAMBDA m :
              Bind([files_changed |-> IF m[1] >= 0 THEN m[1] ELSE stats.files_changed,
                    insertions |-> IF m[2] >= 0 THEN m[2] ELSE stats.insertions,
                    deletions |-> IF m[3] >= 0 THEN m[3] ELSE stats.deletions],
                   LAMBDA updated : ParseStatLines(updated, Tail(ls))))
         ELSE ParseStatLines(stats, Tail(ls))

\* get_commit_stats: only CalledProcessError is caught; FileNotFoundError escapes
GetCommitStats(slf, commit_hash, e, w) ==
    LET o == GitOutcome(e, w)
        w1 == GitRun(w, [sub |-> "show", arg |-> commit_hash])
    IN  CASE o.kind = "nonzero" -> [ret |-> ZeroStats, w |-> w1]
          [] o.kind = "missing" -> [ret |-> ZeroStats, w |-> Raise(w1, "FileNotFoundError")]
          [] OTHER -> Bind(Split(Strip(o.stdout), "\n", -1), LAMBDA ls :
                          [ret |-> ParseStatLines(ZeroStats, ls), w |-> w1])

\* ------------------------------------------------------------ categorizer

FeatureKeywords ==
    << <<"f","e","a","t">>, <<"f","e","a","t","u","r","e">>, <<"a","d","d">>,
       <<"U+65B0","U+589E">>, <<"U+6DFB","U+52A0">>,
       <<"i","m","p","l","e","m","e","n","t">>, <<"c","r","e","a","t","e">> >>

BugfixKeywords ==
    << <<"f","i","x">>, <<"b","u","g">>, <<"U+4FEE","U+590D">>, <<"U+89E3","U+51B3">>,
       <<"p","a","t","c","h">>, <<"r","e","s","o","l","v","e">> >>

DocKeywords ==
    << <<"d","o","c">>, <<"r","e","a","d","m","e">>, <<"U+6587","U+6863">>,
       <<"U+8BF4","U+660E">>, <<"u","p","d","a","t","e">>,
       <<"c","h","a","n","g","e","l","o","g">> >>

RefactorKeywords ==
    << <<"r","e","f","a","c","t","o","r">>, <<"o","p","t","i","m","i","z","e">>,
       <<"U+4F18","U+5316">>, <<"U+91CD","U+6784">>,
       <<"i","m","p","r","o","v","e">>, <<"e","n","h","a","n","c","e">> >>

TestKeywords ==
    << <<"t","e","s","t">>, <<"U+6D4B","U+8BD5">>, <<"s","p","e","c">>,
       <<"u","n","i","t">>, <<"c","o","v","e","r","a","g","e">> >>

\* the six dict keys, in insertion order; the source's labels are Chinese:
\* gong-neng-kai-fa, Bug-xiu-fu, wen-dang-geng-xin, dai-ma-you-hua, ce-shi-xiang-guan, qi-ta
CategoryLabels == <<"feature", "bugfix", "docs", "refactor", "test", "other">>

\* any(keyword in message for keyword in keywords)
AnyKeyword(keywords, message) == \E k \in 1..Len(keywords) : Contains(keywords[k], message)

\* the if/elif chain with the bug-fix test moved in front of the feature test
CategoryOf_BugfixFirst(commit) ==
    Bind(Lower(commit.message), LAMBDA message :
        IF AnyKeyword(BugfixKeywords, message) THEN "bugfix"
        ELSE IF AnyKeyword(FeatureKeywords, message) THEN "feature"
        ELSE IF AnyKeyword(DocKeywords, message) THEN "docs"
        ELSE IF AnyKeyword(RefactorKeywords, message) THEN "refactor"
        ELSE IF AnyKeyword(TestKeywords, message) THEN "test"
        ELSE "other")

\* the if/elif chain of categorize_commits: the key the commit is appended under
CategoryOf(commit) ==
    Bind(Lower(commit.message), LAMBDA message :
        IF AnyKeyword(FeatureKeywords, message) THEN "feature"
        ELSE IF AnyKeyword(BugfixKeywords, message) THEN "bugfix"
        ELSE IF AnyKeyword(DocKeywords, message) THEN "docs"
        ELSE IF AnyKeyword(RefactorKeywords, message) THEN "refactor"
        ELSE IF AnyKeyword(TestKeywords, message) THEN "test"
        ELSE "other")

\* A dict is a sequence of [key, value] items in insertion order.
DictKeys(d) == [i \in 1..Len(d) |-> d[i].key]

DictHas(d, key) == \E i \in 1..Len(d) : d[i].key = key

DictGet(d, key) == d[CHOOSE i \in 1..Len(d) : d[i].key = key].value

\* d[key].insert(0, item)
ListAppend_Prepend(d, key, item) ==
    [i \in 1..Len(d) |-> IF d[i].key = key THEN [d[i] EXCEPT !.value = <<item>> \o @] ELSE d[i]]

\* d[key].append(item)
ListAppend(d, key, item) ==
    [i \in 1..Len(d) |-> IF d[i].key = key THEN [d[i] EXCEPT !.value = Append(@, item)] ELSE d[i]]

RECURSIVE CategorizeLoop(_, _)
CategorizeLoop(categories, cs) ==
    IF cs = <<>> THEN categories
    ELSE Bind(ListAppend(categories, CategoryOf(Head(cs)), Head(cs)),
              LAMBDA d : CategorizeLoop(d, Tail(cs)))

CategorizeCommits(cs) ==
    CategorizeLoop([i \in 1..Len(CategoryLabels) |-> [key |-> CategoryLabels[i], value |-> <<>>]], cs)

\* -------------------------------------------------------- message enhancer

\* requests.post(...): the request is recorded, the outcome is the script's
NetOutcome(e, w) == ScriptAt(e.net, Len(w.netCalls) + 1)

NetPost(w, request) == [w EXCEPT !.netCalls = Append(@, request)]

SummaryLimit == 10

\* the body of the try block with the status test dropped: any response is used
ResponseText_AnyStatus(o, fallback) ==
    IF o.kind = "raise" \/ ~o.wellformed THEN [ok |-> FALSE, text |-> fallback, said |-> TRUE]
    ELSE [ok |-> TRUE, text |-> Strip(o.content), said |-> FALSE]

\* the try block both enhancer methods share: the stripped completion on a
\* well-formed HTTP 200, the fallback on another status or on any exception
\* (said: whether the except branch printed)
ResponseText(o, fallback) ==
    IF o.kind = "raise" THEN [ok |-> FALSE, text |-> fallback, said |-> TRUE]
    ELSE IF o.status = 200
         THEN IF o.wellformed THEN [ok |-> TRUE, text |-> Strip(o.content), said |-> FALSE]
              ELSE [ok |-> FALSE, text |-> fallback, said |-> TRUE]
         ELSE [ok |-> FALSE, text |-> fallback, said |-> FALSE]

\* LLMEnhancer.enhance_commit_message: [ret, w]
EnhanceCommitMessage(llm, message, e, w) ==
    IF ~Truthy(llm.api_key) THEN [ret |-> message, w |-> w]
    ELSE LET w1 == NetPost(w, [kind |-> "enhance", prompt |-> <<message>>, timeout |-> 10]) IN
         Bind(ResponseText(NetOutcome(e, w), message), LAMBDA r :
             [ret |-> r.text,
              w |-> IF r.ok THEN w1
                    ELSE IF r.said THEN Say(w1, "LLM error") ELSE Say(w1, "LLM API failed")])

\* LLMEnhancer.generate_summary: [ret, w]
GenerateSummary(llm, cs, e, w) ==
    IF ~Truthy(llm.api_key) \/ cs = <<>> THEN [ret |-> <<>>, w |-> w]
    ELSE LET first == SubSeq(cs, 1, IF Len(cs) < SummaryLimit THEN Len(cs) ELSE SummaryLimit)
             texts == [i \in 1..Len(first) |-> first[i].author \o <<":", " ">> \o first[i].message]
             w1 == NetPost(w, [kind |-> "summary", prompt |-> texts, timeout |-> 15])
         IN  Bind(ResponseText(NetOutcome(e, w), <<>>), LAMBDA r :
                 [ret |-> r.text, w |-> IF r.said THEN Say(w1, "LLM summary error") ELSE w1])

\* enhanced_commit = commit.copy(); ['original_message'] = ...; ['message'] = ...
\* with the copy's hash lost (the record is rebuilt from the message alone)
EnhancedCopy_DropsHash(commit, message) ==
    [k \in DOMAIN commit \cup {"original_message"} |->
        IF k = "original_message" THEN commit.message
        ELSE IF k = "message" THEN message
        ELSE IF k = "hash" THEN <<>>
        ELSE commit[k]]

\* enhanced_commit = commit.copy(); ['original_message'] = ...; ['message'] = ...
EnhancedCopy(commit, message) ==
    [k \in DOMAIN commit \cup {"original_message"} |->
        IF k = "original_message" THEN commit.message
        ELSE IF k = "message" THEN message
        ELSE commit[k]]

RECURSIVE EnhanceLoop(_, _, _, _, _)
EnhanceLoop(llm, cs, enhanced_commits, e, w) ==
    IF cs = <<>> THEN [ret |-> enhanced_commits, w |-> w]
    ELSE Bind(EnhanceCommitMessage(llm, Head(cs).message, e, w), LAMBDA r :
         Bind(Append(enhanced_commits, EnhancedCopy(Head(cs), r.ret)), LAMBDA enhanced :
             EnhanceLoop(llm, Tail(cs), enhanced, e, r.w)))

\* GitWeeklyReport.enhance_commit_messages: [ret, w]
EnhanceCommitMessages(slf, cs, e, w) ==
    IF ~slf.use_llm \/ slf.llm.is_none THEN [ret |-> cs, w |-> w]
    ELSE EnhanceLoop(slf.llm, cs, <<>>, e, w)

\* ---------------------------------------------------------- report builder

\* The document is the list `report` that "\n".join renders, one record a line.
TitleLine(author) == [tag |-> "title", author |-> author]
BlankLine == [tag |-> "blank"]
NoCommitsLine == [tag |-> "no_commits"]
RangeLine(from, to) == [tag |-> "range", from |-> from, to |-> to]
SummaryHeading == [tag |-> "summary_heading"]
SummaryLine(text) == [tag |-> "summary", text |-> text]
StatsHeading == [tag |-> "stats_heading"]
TotalLine(what, n) == [tag |-> what, n |-> n]
CategoriesHeading == [tag |-> "categories_heading"]
CategoryHeading(label, n) == [tag |-> "category", label |-> label, n |-> n]
CategoryItem(c) == [tag |-> "category_item", author |-> c.author, message |-> c.message]
OriginalLine(c) == [tag |-> "original", message |-> c.original_message]
DatesHeading == [tag |-> "dates_heading"]
DateHeading(date) == [tag |-> "date", date |-> date]
DateItem(c, stats) == [tag |-> "date_item", author |-> c.author, stats |-> stats, message |-> c.message]

\* if date not in commits_by_date: commits_by_date[date] = []
DictSetDefault(d, key) == IF DictHas(d, key) THEN d ELSE Append(d, [key |-> key, value |-> <<>>])

RECURSIVE GroupByDate(_, _)
GroupByDate(commits_by_date, cs) ==
    IF cs = <<>> THEN commits_by_date
    ELSE Bind(DictSetDefault(commits_by_date, Head(cs).date), LAMBDA d0 :
         Bind(ListAppend(d0, Head(cs).date, Head(cs)), LAMBDA d : GroupByDate(d, Tail(cs))))

\* the totals loop with the first commit left out
RECURSIVE TotalsLoop_SkipsFirst(_, _, _, _, _)
TotalsLoop_SkipsFirst(slf, cs, totals, e, w) ==
    IF cs = <<>> \/ w.raised # "none" THEN [ret |-> totals, w |-> w]
    ELSE Bind(GetCommitStats(slf, Head(cs).hash, e, w), LAMBDA r :
         Bind(IF w.gitCalls = <<>> THEN totals
              ELSE [files_changed |-> totals.files_changed + r.ret.files_changed,
                    insertions |-> totals.insertions + r.ret.insertions,
                    deletions |-> totals.deletions + r.ret.deletions],
              LAMBDA t : TotalsLoop_SkipsFirst(slf, Tail(cs), t, e, r.w)))

\* for commit in commits: stats = self.get_commit_stats(...); total_* += ...
\* (a raised exception ends the loop and the call)
RECURSIVE TotalsLoop(_, _, _, _, _)
TotalsLoop(slf, cs, totals, e, w) ==
    IF cs = <<>> \/ w.raised # "none" THEN [ret |-> totals, w |-> w]
    ELSE Bind(GetCommitStats(slf, Head(cs).hash, e, w), LAMBDA r :
         Bind([files_changed |-> totals.files_changed + r.ret.files_changed,
               insertions |-> totals.insertions + r.ret.insertions,
               deletions |-> totals.deletions + r.ret.deletions],
              LAMBDA t : TotalsLoop(slf, Tail(cs), t, e, r.w)))

RECURSIVE CategorySection(_, _)
CategorySection(slf, categorized) ==
    IF categorized = <<>> THEN <<>>
    ELSE LET category_commits == Head(categorized).value
             item(c) == IF slf.use_llm /\ "original_message" \in DOMAIN c
                        THEN <<CategoryItem(c), OriginalLine(c)>>
                        ELSE <<CategoryItem(c)>>
             items[k \in 0..Len(category_commits)] ==
                 IF k = 0 THEN <<>> ELSE items[k - 1] \o item(category_commits[k])
         IN  (IF category_commits # <<>>
              THEN <<CategoryHeading(Head(categorized).key, Len(category_commits))>>
                   \o items[Len(category_commits)] \o <<BlankLine>>
              ELSE <<>>) \o CategorySection(slf, Tail(categorized))

RECURSIVE DateItems(_, _, _, _, _)
DateItems(slf, date_commits, report, e, w) ==
    IF date_commits = <<>> \/ w.raised # "none" THEN [ret |-> report, w |-> w]
    ELSE Bind(GetCommitStats(slf, Head(date_commits).hash, e, w), LAMBDA r :
         Bind(Append(report, DateItem(Head(date_commits), r.ret)), LAMBDA rep :
             DateItems(slf, Tail(date_commits), rep, e, r.w)))

\* sorted(commits_by_date.keys()): reverse=True forgotten
DateOrder_Ascending(commits_by_date) == SortedAscending(DictKeys(commits_by_date))

\* sorted(commits_by_date.keys(), reverse=True)
DateOrder(commits_by_date) == SortedDescending(DictKeys(commits_by_date))

RECURSIVE DateSection(_, _, _, _, _, _)
DateSection(slf, dates, commits_by_date, report, e, w) ==
    IF dates = <<>> \/ w.raised # "none" THEN [ret |-> report, w |-> w]
    ELSE Bind(Append(report, DateHeading(Head(dates))), LAMBDA rep0 :
         Bind(DateItems(slf, DictGet(commits_by_date, Head(dates)), rep0, e, w), LAMBDA r :
         Bind(Append(r.ret, BlankLine), LAMBDA rep :
             DateSection(slf, Tail(dates), commits_by_date, rep, e, r.w))))

\* the document returned for an empty commit list, with the date-range line
\* of the full report added
EmptyReport_WithRange(slf) ==
    <<TitleLine(IF Truthy(slf.author) THEN slf.author ELSE None), BlankLine,
      RangeLine(<<>>, <<>>), NoCommitsLine, BlankLine>>

\* the document returned for an empty commit list: "<title>\n\n<no commits>\n"
EmptyReport(slf) ==
    <<TitleLine(IF Truthy(slf.author) THEN slf.author ELSE None), BlankLine, NoCommitsLine, BlankLine>>

\* GitWeeklyReport.generate_report: [ret, w]; when w.raised is set the call
\* was left by the exception and ret is not returned
GenerateReport(slf, cs0, e, w0) ==
    IF cs0 = <<>> THEN [ret |-> EmptyReport(slf), w |-> w0]
    ELSE
    Bind(IF slf.use_llm THEN EnhanceCommitMessages(slf, cs0, e, Say(w0, "enhancing"))
         ELSE [ret |-> cs0, w |-> w0], LAMBDA enh :
    Bind(GroupByDate(<<>>, enh.ret), LAMBDA commits_by_date :
    Bind(CategorizeCommits(enh.ret), LAMBDA categorized :
    Bind(TotalsLoop(slf, enh.ret, ZeroStats, e, enh.w), LAMBDA tot :
    Bind(IF slf.use_llm /\ ~slf.llm.is_none /\ tot.w.raised = "none"
         THEN GenerateSummary(slf.llm, enh.ret, e, Say(tot.w, "summarizing"))
         ELSE [ret |-> <<>>, w |-> tot.w], LAMBDA sum :
    LET cs == enh.ret
        head == <<TitleLine(IF Truthy(slf.author) THEN slf.author ELSE None), BlankLine,
                  RangeLine(cs[1].date, cs[Len(cs)].date), BlankLine>>
        summary == IF sum.ret # <<>>
                   THEN <<SummaryHeading, BlankLine, SummaryLine(sum.ret), BlankLine>>
                   ELSE <<>>
        overview == <<StatsHeading, BlankLine,
                      TotalLine("total_commits", Len(cs)),
                      TotalLine("total_files", tot.ret.files_changed),
                      TotalLine("total_insertions", tot.ret.insertions),
                      TotalLine("total_deletions", tot.ret.deletions), BlankLine>>
        cats == <<CategoriesHeading, BlankLine>> \o CategorySection(slf, categorized)
    IN  Bind(head \o summary \o overview \o cats \o <<DatesHeading, BlankLine>>, LAMBDA body :
        Bind(DateOrder(commits_by_date), LAMBDA dates :
            DateSection(slf, dates, commits_by_date, body, e, sum.w))))))))

\* -------------------------------------------------------------------- main

\* main(), from the parsed arguments to `if args.list_authors: ... return`
MainListAuthors ==
    /\ pc = "main"
    /\ args.list_authors
    /\ \E r \in {GetAllAuthors(self, env, world)} :
           /\ result' = r.ret
           /\ world' = IF r.ret # <<>> THEN Say(Say(r.w, "authors:"), r.ret) ELSE Say(r.w, "no authors found")
    /\ pc' = "exit"
    /\ UNCHANGED <<args, self, commits, lines, env>>

\* the API-key check with the early return lost: the run goes on to the fetch
MainCheckKey_NoReturn ==
    /\ pc = "main"
    /\ ~args.list_authors
    /\ world' = IF args.use_llm
                THEN IF ~Truthy(Or(args.api_key, args.env_key))
                     THEN Say(world, "error: LLM needs an OpenRouter API key")
                     ELSE Say(world, "using LLM model")
                ELSE world
    /\ pc' = "fetch"
    /\ UNCHANGED <<args, self, commits, lines, result, env>>

\* `if args.use_llm:` the API-key check, returning when no key is given
MainCheckKey ==
    /\ pc = "main"
    /\ ~args.list_authors
    /\ IF args.use_llm
       THEN IF ~Truthy(Or(args.api_key, args.env_key))
            THEN /\ world' = Say(world, "error: LLM needs an OpenRouter API key")
                 /\ pc' = "exit"
            ELSE /\ world' = Say(world, "using LLM model")
                 /\ pc' = "fetch"
       ELSE /\ world' = world
            /\ pc' = "fetch"
    /\ UNCHANGED <<args, self, commits, lines, result, env>>

\* commits = generator.get_commits_last_week() and the `if not commits: return`
MainFetch ==
    /\ pc = "fetch"
    /\ \E r \in {GetCommitsLastWeek(self, env, Say(world, "fetching commits"))} :
           /\ commits' = r.ret
           /\ IF r.ret = <<>>
              THEN world' = Say(r.w, "no commits found") /\ pc' = "exit"
              ELSE world' = Say(r.w, "found commits") /\ pc' = "generate"
    /\ UNCHANGED <<args, self, lines, result, env>>

\* report = generator.generate_report(commits); an exception ends the process
MainGenerate ==
    /\ pc = "generate"
    /\ \E r \in {GenerateReport(self, commits, env, Say(world, "generating report"))} :
           /\ world' = r.w
           /\ IF r.w.raised = "none"
              THEN result' = r.ret /\ pc' = "output"
              ELSE result' = <<>> /\ pc' = "crashed"
    /\ UNCHANGED <<args, self, commits, lines, env>>

\* the report is written to args.output, or printed after a separator
MainOutput ==
    /\ pc = "output"
    /\ world' = IF Truthy(args.output)
                THEN Say([world EXCEPT !.written = Append(@, [path |-> args.output, text |-> result])], "saved")
                ELSE Say(Say(world, "=========="), result)
    /\ pc' = "exit"
    /\ UNCHANGED <<args, self, commits, lines, result, env>>

\* ------------------------------------------------------ inputs: commits

DigitChars == <<"0", "1", "2", "3", "4", "5", "6", "7", "8", "9">>

\* git's commit identifiers are distinct: the i-th fetched commit is "c<i>"
HashOf(i) == <<"c", DigitChars[i + 1]>>

CatMessagePool ==
    { <<"f","i","x"," ","a","d","d">>,
      <<"F","i","x"," ","B","u","g">>,
      <<"u","p","d","a","t","e">>,
      <<"i","m","p","r","o","v","e"," ","t","e","s","t">>,
      <<"f","i","x"," ","t","e","s","t">>,
      <<"u","n","i","t">>,
      <<"U+4FEE","U+590D"," ","d","o","c">>,
      <<"w","i","p">> }

AuthorAlice == <<"A","l","i","c","e">>
AuthorBob == <<"B","o","b">>

Date1231 == <<"2","0","2","3","-","1","2","-","3","1">>
Date0102 == <<"2","0","2","4","-","0","1","-","0","2">>
Date0110 == <<"2","0","2","4","-","0","1","-","1","0">>

NoEnv == [git |-> <<>>, net |-> <<>>]
NoArgs == [use_llm |-> FALSE, api_key |-> None, env_key |-> None, author |-> None,
           list_authors |-> FALSE, output |-> None]
World0 == [gitCalls |-> <<>>, netCalls |-> <<>>, printed |-> <<>>, written |-> <<>>, raised |-> "none"]

\* ------------------------------------------------- SpecCat: categorizer

InitCat ==
    /\ pc = "categorize"
    /\ \E ms \in SeqsUpTo(CatMessagePool, MaxCommits) :
          commits = [i \in 1..Len(ms) |->
                       [hash |-> HashOf(i), author |-> AuthorAlice, date |-> Date0110, message |-> ms[i]]]
    /\ args = NoArgs /\ self = GitWeeklyReport(FALSE, None, None, None) /\ lines = <<>>
    /\ result = <<>> /\ env = NoEnv /\ world = World0

CallCategorize ==
    /\ pc = "categorize"
    /\ result' = CategorizeCommits(commits)
    /\ pc' = "categorized"
    /\ UNCHANGED <<args, self, commits, lines, env, world>>

NextCat == CallCategorize

SpecCat == InitCat /\ [][NextCat]_vars

\* ------------------------------------------------------- Spec: main()

ApiKey == <<"s","k">>
OutPath == <<"o","u","t">>

StatText1 ==
    <<" ","a",".","p","y"," ","|"," ","3"," ","+","+","-","\n",
      " ","1"," ","f","i","l","e"," ","c","h","a","n","g","e","d",","," ",
      "2"," ","i","n","s","e","r","t","i","o","n","s","(","+",")",","," ",
      "1"," ","d","e","l","e","t","i","o","n","(","-",")">>

StatText2 ==
    <<" ","2"," ","f","i","l","e","s"," ","c","h","a","n","g","e","d",","," ",
      "5"," ","d","e","l","e","t","i","o","n","s","(","-",")">>

GitOk(stdout) == [kind |-> "ok", stdout |-> stdout]
GitFail(kind) == [kind |-> kind, stdout |-> <<>>]

NetRaise == [kind |-> "raise", status |-> 0, wellformed |-> FALSE, content |-> <<>>]
NetResponse(status, wellformed, content) ==
    [kind |-> "response", status |-> status, wellformed |-> wellformed, content |-> content]

\* what the API may answer: a connection error, an error status, a 200 whose
\* JSON lacks the completion, a 200 with a padded text, a 200 with a blank text
NetOutcomes ==
    { NetRaise,
      NetResponse(500, TRUE, <<"n","o">>),
      NetResponse(200, FALSE, <<>>),
      NetResponse(200, TRUE, <<" ","f","i","x"," ","i","t","\n">>),
      NetResponse(200, TRUE, <<" ">>) }

\* the log `git log` prints for the first n commits of the week
MainLogLine(i) ==
    HashOf(i) \o <<"|">> \o (IF i % 2 = 1 THEN AuthorAlice ELSE AuthorBob) \o <<"|">>
    \o (IF i = 1 THEN Date0110 ELSE Date0102) \o <<"|">>
    \o (IF i % 2 = 1 THEN <<"f","i","x"," ","b","u","g">> ELSE <<"a","d","d"," ","x">>)

MainLog(n) == Join([i \in 1..n |-> MainLogLine(i)], "\n")

Init ==
    /\ pc = "main"
    /\ args \in [use_llm : BOOLEAN, api_key : {None, ApiKey}, env_key : {None, <<>>, ApiKey},
                 author : {None, AuthorAlice}, list_authors : BOOLEAN, output : {None, OutPath}]
    /\ self = GitWeeklyReport(args.use_llm, args.api_key, args.env_key, args.author)
    /\ \E first \in {GitOk(MainLog(n)) : n \in 0..MaxFetched} \cup {GitFail("nonzero"), GitFail("missing")},
          show \in {GitOk(StatText1), GitFail("nonzero"), GitFail("missing")},
          net \in {NetRaise, NetResponse(200, TRUE, <<" ","f","i","x"," ","i","t","\n">>)} :
          env = [git |-> <<first, show>>, net |-> <<net>>]
    /\ commits = <<>> /\ lines = <<>> /\ result = <<>> /\ world = World0

Next == MainListAuthors \/ MainCheckKey \/ MainFetch \/ MainGenerate \/ MainOutput

Spec == Init /\ [][Next]_vars

\* ---------------------------------------- SpecReport: generate_report

ReportMessagePool == { <<"f","i","x"," ","a","d","d">>, <<"w","i","p">> }

DatePool == {Date1231, Date0102, Date0110}

InitReport ==
    /\ pc = "report"
    /\ \E ds \in SeqsUpTo(DatePool \X ReportMessagePool, MaxReportCommits) :
          commits = [i \in 1..Len(ds) |->
                       [hash |-> HashOf(i), author |-> IF i % 2 = 1 THEN AuthorAlice ELSE AuthorBob,
                        date |-> ds[i][1], message |-> ds[i][2]]]
    /\ \E use_llm \in BOOLEAN, key \in {None, ApiKey}, author \in {None, AuthorBob} :
          /\ ~use_llm => key = None
          /\ self = GitWeeklyReport(use_llm, key, None, author)
    /\ \E net \in {NetRaise, NetResponse(200, TRUE, <<" ","f","i","x"," ","i","t","\n">>)} :
          /\ (~self.use_llm \/ ~Truthy(self.llm.api_key)) => net = NetRaise
          /\ env = [git |-> <<GitOk(StatText2)>>, net |-> <<net>>]
    /\ args = NoArgs /\ lines = <<>> /\ result = <<>> /\ world = World0

CallGenerateReport ==
    /\ pc = "report"
    /\ \E r \in {GenerateReport(self, commits, env, world)} :
           /\ world' = r.w
           /\ IF r.w.raised = "none"
              THEN result' = r.ret /\ pc' = "reported"
              ELSE result' = <<>> /\ pc' = "crashed"
    /\ UNCHANGED <<args, self, commits, lines, env>>

NextReport == CallGenerateReport

SpecReport == InitReport /\ [][NextReport]_vars

\* ------------------- SpecGroup: the grouping steps of generate_report

\* generate_report's "group by date" loop followed by categorize_commits
GroupAndCategorize ==
    /\ pc = "report"
    /\ result' = [commits_by_date |-> GroupByDate(<<>>, commits),
                  categorized |-> CategorizeCommits(commits)]
    /\ pc' = "grouped"
    /\ UNCHANGED <<args, self, commits, lines, env, world>>

NextGroup == GroupAndCategorize

SpecGroup == InitReport /\ [][NextGroup]_vars

\* ------------------------- SpecStats: generate_report and the stat fetcher

\* every behaviour of the stat fetcher over the 2n fetches of n commits
InitStats ==
    /\ pc = "report"
    /\ \E ds \in SeqsUpTo({Date0102, Date0110}, MaxStatCommits) :
          /\ commits = [i \in 1..Len(ds) |->
                          [hash |-> HashOf(i), author |-> AuthorAlice, date |-> ds[i],
                           message |-> <<"w","i","p">>]]
          /\ \E script \in [1..(2 * Len(ds)) ->
                              {GitOk(StatText1), GitOk(StatText2), GitFail("nonzero"), GitFail("missing")}] :
                env = [git |-> script, net |-> <<>>]
    /\ self = GitWeeklyReport(FALSE, None, None, None)
    /\ args = NoArgs /\ lines = <<>> /\ result = <<>> /\ world = World0

SpecStats == InitStats /\ [][NextReport]_vars

\* ------------------------------------------- SpecEnhance: the enhancer

EnhMessagePool == { <<"f","i","x"," ","b","u","g">>, <<" ","w","i","p">> }

InitEnhance ==
    /\ pc = "enhance"
    /\ \E ms \in SeqsUpTo(EnhMessagePool, MaxEnhCommits) :
          commits = [i \in 1..Len(ms) |->
                       [hash |-> HashOf(i), author |-> AuthorAlice, date |-> Date0110, message |-> ms[i]]]
    /\ \E use_llm \in BOOLEAN, key \in {None, <<>>, ApiKey} :
          self = GitWeeklyReport(use_llm, key, None, None)
    /\ \E script \in UNION {[1..k -> NetOutcomes] : k \in 1..MaxEnhCommits} :
          env = [git |-> <<>>, net |-> script]
    /\ args = NoArgs /\ lines = <<>> /\ result = <<>> /\ world = World0

CallEnhanceCommitMessages ==
    /\ pc = "enhance"
    /\ \E r \in {EnhanceCommitMessages(self, commits, env, world)} : result' = r.ret /\ world' = r.w
    /\ pc' = "enhanced"
    /\ UNCHANGED <<args, self, commits, lines, env>>

\* self.llm.enhance_commit_message(commits[0]['message'])
CallEnhanceCommitMessage ==
    /\ pc = "enhance"
    /\ ~self.llm.is_none
    /\ commits # <<>>
    /\ \E r \in {EnhanceCommitMessage(self.llm, commits[1].message, env, world)} :
           result' = r.ret /\ world' = r.w
    /\ pc' = "rewritten"
    /\ UNCHANGED <<args, self, commits, lines, env>>

\* self.llm.generate_summary(commits)
CallGenerateSummary ==
    /\ pc = "enhance"
    /\ ~self.llm.is_none
    /\ \E r \in {GenerateSummary(self.llm, commits, env, world)} : result' = r.ret /\ world' = r.w
    /\ pc' = "summarized"
    /\ UNCHANGED <<args, self, commits, lines, env>>

NextEnhance == CallEnhanceCommitMessages \/ CallEnhanceCommitMessage \/ CallGenerateSummary

SpecEnhance == InitEnhance /\ [][NextEnhance]_vars

\* --------------------------------------- SpecTool: the three git callers

\* what `git log --pretty=format:%H|%an|%ad|%s`, `git log --pretty=format:%an`
\* and `git show --stat` may print, line by line
LinePool ==
    { <<"c","1","|","A","|","d","|","f","i","x">>,
      <<"c","2","|","B","|","d","|","x","|","y">>,
      <<"c","3","|","B","|","d">>,
      <<" ","c","4","|","A","|","d","|","m"," ">>,
      <<"|","|","|">>,
      <<"B","o","b">>,
      <<" ">>,
      <<>>,
      <<" ","2"," ","f","i","l","e","s"," ","c","h","a","n","g","e","d",","," ","5"," ","d","e","l","e","t","i","o","n","s","(","-",")">> }

InitTool ==
    /\ pc = "tool"
    /\ lines \in SeqsUpTo(LinePool, MaxLines)
    /\ \E kind \in {"ok", "nonzero", "missing"} :
          /\ kind # "ok" => lines = <<>>
          /\ env = [git |-> << [kind |-> kind, stdout |-> Join(lines, "\n")] >>, net |-> <<>>]
    /\ \E author \in {None, AuthorAlice} : self = GitWeeklyReport(FALSE, None, None, author)
    /\ args = NoArgs /\ commits = <<>> /\ result = <<>> /\ world = World0

CallGetCommitsLastWeek ==
    /\ pc = "tool"
    /\ \E r \in {GetCommitsLastWeek(self, env, world)} : result' = r.ret /\ world' = r.w
    /\ pc' = "parsed"
    /\ UNCHANGED <<args, self, commits, lines, env>>

CallGetAllAuthors ==
    /\ pc = "tool"
    /\ \E r \in {GetAllAuthors(self, env, world)} : result' = r.ret /\ world' = r.w
    /\ pc' = "listed"
    /\ UNCHANGED <<args, self, commits, lines, env>>

CallGetCommitStats ==
    /\ pc = "tool"
    /\ \E r \in {GetCommitStats(self, HashOf(1), env, world)} : result' = r.ret /\ world' = r.w
    /\ pc' = "counted"
    /\ UNCHANGED <<args, self, commits, lines, env>>

NextTool == CallGetCommitsLastWeek \/ CallGetAllAuthors \/ CallGetCommitStats

SpecTool == InitTool /\ [][NextTool]_vars

PipeCount(line) == Cardinality({i \in 1..Len(line) : line[i] = "|"})

Blank(line) == \A i \in 1..Len(line) : line[i] \in Whitespace

\* index in `lines` of the k-th line with at least three pipes
AcceptedIndex(k) ==
    CHOOSE i \in 1..Len(lines) :
        /\ PipeCount(lines[i]) >= 3
        /\ Cardinality({j \in 1..i : PipeCount(lines[j]) >= 3}) = k

\* C2 as stated: the records are exactly the lines with exactly four
\* pipe-delimited fields, in order; every other line is skipped.
C2_ExactlyFourFields ==
    (pc = "parsed" /\ env.git[1].kind = "ok") =>
        Len(result) = Cardinality({i \in 1..Len(lines) : PipeCount(lines[i]) = 3})

\* C2 amended: there is exactly one record per line with at least three pipes,
\* in order; its hash, author and date are the line's first three fields and its
\* message is everything after the third pipe (further pipes included), where
\* only the whitespace that starts or ends the whole output is dropped (from the
\* hash of a record no non-blank line precedes, from the message of a record no
\* non-blank line follows); lines with fewer than three pipes are skipped.
C2_AtLeastThreePipes ==
    (pc = "parsed" /\ env.git[1].kind = "ok") =>
        /\ Len(result) = Cardinality({i \in 1..Len(lines) : PipeCount(lines[i]) >= 3})
        /\ \A k \in 1..Len(result) :
              LET i == AcceptedIndex(k)
                  first == \A j \in 1..(i - 1) : Blank(lines[j])
                  last == \A j \in (i + 1)..Len(lines) : Blank(lines[j])
                  r == result[k]
              IN  /\ "|" \notin Range(r.hash) \cup Range(r.author) \cup Range(r.date)
                  /\ Join(<<r.hash, r.author, r.date, r.message>>, "|")
                        = (IF first /\ last THEN Strip(lines[i])
                           ELSE IF first THEN LStrip(lines[i])
                           ELSE IF last THEN RStrip(lines[i])
                           ELSE lines[i])

\* a five-field line was parsed into a record whose message keeps the pipe, next
\* to a skipped three-field line and an accepted four-field line
C2_Witness ==
    /\ pc = "parsed" /\ env.git[1].kind = "ok"
    /\ Len(lines) = 3 /\ Len(result) = 2
    /\ PipeCount(lines[1]) = 4 /\ PipeCount(lines[2]) = 2 /\ PipeCount(lines[3]) = 3
    /\ "|" \in Range(result[1].message)

\* C3 as stated: a failing external tool (missing binary, non-zero exit) is never
\* raised to the caller; each fetcher returns its degraded result instead.
C3_ToolFailureNeverRaised ==
    (pc \in {"parsed", "listed", "counted"} /\ env.git[1].kind \in {"nonzero", "missing"}) =>
        /\ world.raised = "none"
        /\ pc = "counted" => result = ZeroStats
        /\ pc \in {"parsed", "listed"} => result = <<>>

KeywordLists == <<FeatureKeywords, BugfixKeywords, DocKeywords, RefactorKeywords, TestKeywords>>

KeywordMatch(k, message) == \E kw \in Range(KeywordLists[k]) : Contains(kw, Lower(message))

\* the bucket the priority order assigns: the first list with a keyword in the
\* lower-cased message, the catch-all sixth bucket when no list has one
ExpectedBucket(message) ==
    IF \E k \in 1..Len(KeywordLists) : KeywordMatch(k, message)
    THEN CHOOSE k \in 1..Len(KeywordLists) :
            KeywordMatch(k, message) /\ \A j \in 1..(k - 1) : ~KeywordMatch(j, message)
    ELSE Len(KeywordLists) + 1

RECURSIVE SumLen(_)
SumLen(d) == IF d = <<>> THEN 0 ELSE Len(Head(d).value) + SumLen(Tail(d))

\* C1: categorize_commits is total and respects the priority order: there are six
\* buckets, their sizes sum to the number of commits, and every commit is in
\* exactly one bucket, the first of feature, bug-fix, documentation, refactor,
\* test whose keyword list has a keyword in the lower-cased message, or the
\* catch-all bucket when none has (so fix + feature keywords give feature).
C1_CategorizeTotalPriority ==
    pc = "categorized" =>
        /\ Len(result) = Len(KeywordLists) + 1
        /\ SumLen(result) = Len(commits)
        /\ \A i \in 1..Len(commits) : \A k \in 1..Len(result) :
              (commits[i] \in Range(result[k].value)) <=> (k = ExpectedBucket(commits[i].message))

\* a commit whose message has both a fix and a feature keyword was filed under
\* feature, while another commit fell into the catch-all bucket
C1_Witness ==
    /\ pc = "categorized"
    /\ \E i \in 1..Len(commits) :
          /\ KeywordMatch(1, commits[i].message) /\ KeywordMatch(2, commits[i].message)
          /\ commits[i] \in Range(DictGet(result, "feature"))
    /\ DictGet(result, "other") # <<>>
    /\ DictGet(result, "bugfix") # <<>>

\* ----------------------------------------------------------------- claims

Tags(report) == [i \in 1..Len(report) |-> report[i].tag]

\* the only credential sources: the --api-key flag and OPENROUTER_API_KEY
NoCredential == ~Truthy(args.api_key) /\ ~Truthy(args.env_key)

\* C5 as stated: when --use-llm is given and neither the flag nor the
\* environment variable holds a credential, the run prints the message and
\* halts before any git invocation, network call or output write.
C5_MissingKeyHaltsBeforeFetch ==
    (args.use_llm /\ NoCredential) =>
        /\ world.gitCalls = <<>> /\ world.netCalls = <<>> /\ world.written = <<>>
        /\ pc \in {"main", "exit"}
        /\ pc = "exit" => world.printed = <<"error: LLM needs an OpenRouter API key">>

\* C5 amended: the same, unless --list-authors is given, which is served first
\* (one git invocation) and returns before the credential is looked at.
C5_MissingKeyHaltsUnlessListing ==
    (args.use_llm /\ NoCredential /\ ~args.list_authors) =>
        /\ world.gitCalls = <<>> /\ world.netCalls = <<>> /\ world.written = <<>>
        /\ pc \in {"main", "exit"}
        /\ pc = "exit" => world.printed = <<"error: LLM needs an OpenRouter API key">>

\* the run has ended on the missing-credential message, the tool would have
\* answered with commits
C5_Witness ==
    /\ pc = "exit" /\ args.use_llm /\ NoCredential /\ ~args.list_authors
    /\ env.git[1].kind = "ok" /\ env.git[1].stdout # <<>>
    /\ world.printed = <<"error: LLM needs an OpenRouter API key">>

\* C6: generate_report on an empty commit sequence returns only the title (with
\* the author name when an author filter is set) and the fixed no-commit line,
\* with no other section, no stat fetch and no enhancer call, whether or not
\* enhancement is enabled.
C6_EmptyShortCircuit ==
    (pc # "report" /\ commits = <<>>) =>
        /\ pc = "reported"
        /\ Tags(result) = <<"title", "blank", "no_commits", "blank">>
        /\ result[1].author = self.author
        /\ world.gitCalls = <<>> /\ world.netCalls = <<>> /\ world.printed = <<>>

\* the empty document was produced for an author with enhancement enabled and a
\* credential configured
C6_Witness ==
    /\ pc = "reported" /\ commits = <<>>
    /\ self.use_llm /\ Truthy(self.llm.api_key) /\ self.author = AuthorBob
    /\ result[1].author = AuthorBob

\* the calendar day a YYYY-MM-DD string names, as a number that grows with time
DateOrdinal(d) == 10000 * ToInt(SubSeq(d, 1, 4)) + 100 * ToInt(SubSeq(d, 6, 7)) + ToInt(SubSeq(d, 9, 10))

DateHeadings(report) ==
    LET hs == SelectSeq(report, LAMBDA l : l.tag = "date") IN [i \in 1..Len(hs) |-> hs[i].date]

\* C7: in the per-date section every distinct commit date is one heading, and
\* the headings are in strictly descending date order, whatever the order of
\* the input.
C7_DateHeadingsDescending ==
    pc = "reported" =>
        \E hs \in {DateHeadings(result)} :
            /\ Range(hs) = {commits[i].date : i \in 1..Len(commits)}
            /\ \A i \in 1..Len(hs) : \A j \in (i + 1)..Len(hs) :
                  DateOrdinal(hs[i]) > DateOrdinal(hs[j])

\* three commits came oldest first, on three different days, and the report
\* lists the three days newest first
C7_Witness ==
    /\ pc = "reported" /\ Len(commits) = 3
    /\ DateOrdinal(commits[1].date) < DateOrdinal(commits[2].date)
    /\ DateOrdinal(commits[2].date) < DateOrdinal(commits[3].date)
    /\ DateHeadings(result) = <<commits[3].date, commits[2].date, commits[1].date>>

\* position of commit c in the input (hashes are distinct)
IndexIn(cs, c) == CHOOSE i \in 1..Len(cs) : cs[i] = c

\* group lists commits of cs in the order they have in cs
InFetchOrder(group, cs) ==
    /\ \A a \in 1..Len(group) : \E i \in 1..Len(cs) : cs[i] = group[a]
    /\ \A a \in 1..Len(group) : \A b \in (a + 1)..Len(group) : IndexIn(cs, group[a]) < IndexIn(cs, group[b])

\* C8: every category bucket and every date group lists its commits in the
\* order of the input sequence, and the category mapping has its six labels in
\* the fixed order feature, bug-fix, documentation, refactor, test, other.
C8_GroupsKeepFetchOrder ==
    pc = "grouped" =>
        /\ DictKeys(result.categorized) = <<"feature", "bugfix", "docs", "refactor", "test", "other">>
        /\ \A k \in 1..Len(result.categorized) : InFetchOrder(result.categorized[k].value, commits)
        /\ \A k \in 1..Len(result.commits_by_date) : InFetchOrder(result.commits_by_date[k].value, commits)
        /\ SumLen(result.categorized) = Len(commits)
        /\ SumLen(result.commits_by_date) = Len(commits)

\* the first and third commit share a day and a category the second one does
\* not have, and each shared group lists them first, third
C8_Witness ==
    /\ pc = "grouped" /\ Len(commits) = 3
    /\ commits[1].date = commits[3].date /\ commits[2].date # commits[1].date
    /\ DictGet(result.commits_by_date, commits[1].date) = <<commits[1], commits[3]>>
    /\ DictGet(result.categorized, "feature") = <<commits[1], commits[3]>>
    /\ DictGet(result.categorized, "other") = <<commits[2]>>

TotalOf(report, what) == (CHOOSE l \in Range(report) : l.tag = what).n

RECURSIVE SumItems(_, _)
SumItems(report, field) ==
    IF report = <<>> THEN 0
    ELSE (IF Head(report).tag = "date_item" THEN Head(report).stats[field] ELSE 0) + SumItems(Tail(report), field)

TotalsMatchDetails ==
    /\ TotalOf(result, "total_commits") = Cardinality({i \in 1..Len(result) : result[i].tag = "date_item"})
    /\ TotalOf(result, "total_files") = SumItems(result, "files_changed")
    /\ TotalOf(result, "total_insertions") = SumItems(result, "insertions")
    /\ TotalOf(result, "total_deletions") = SumItems(result, "deletions")

\* what get_commit_stats makes of the outcome of the k-th invocation
StatsOfCall(k) == GetCommitStats(self, world.gitCalls[k].arg, [env EXCEPT !.git = <<ScriptAt(env.git, k)>>], World0).ret

\* every fetch of the same commit gave the same stats
SameStatsPerCommit ==
    \A k1 \in 1..Len(world.gitCalls) : \A k2 \in 1..Len(world.gitCalls) :
        world.gitCalls[k1].arg = world.gitCalls[k2].arg => StatsOfCall(k1) = StatsOfCall(k2)

\* C9 as stated: for every commit sequence and every behaviour of the stat
\* fetcher, the totals of the statistics section equal the sums of the
\* per-commit stats printed in the per-date section.
C9_TotalsEqualDetailSums ==
    pc = "reported" /\ commits # <<>> => TotalsMatchDetails

\* C9 amended: the totals equal the sums whenever the two fetches of each
\* commit return the same stats.
C9_TotalsEqualWhenFetchesAgree ==
    (pc = "reported" /\ commits # <<>> /\ SameStatsPerCommit) => TotalsMatchDetails

\* two commits with different, non-zero stats, fetched in one order for the
\* totals and in the other for the per-date section
C9_Witness ==
    /\ pc = "reported" /\ Len(commits) = 2 /\ SameStatsPerCommit
    /\ DateOrdinal(commits[1].date) < DateOrdinal(commits[2].date)
    /\ StatsOfCall(1) # StatsOfCall(2)
    /\ StatsOfCall(1).files_changed > 0 /\ StatsOfCall(2).files_changed > 0
    /\ TotalOf(result, "total_files") = StatsOfCall(1).files_changed + StatsOfCall(2).files_changed

\* C10: with enhancement enabled the result has the input's length and order,
\* each record keeps hash, author and date, gets original_message = the fetched
\* message, and only message may differ; with enhancement disabled the input is
\* returned unchanged, without original_message and without an enhancer call.
C10_EnhanceKeepsAllButMessage ==
    pc = "enhanced" =>
        IF self.use_llm
        THEN /\ Len(result) = Len(commits)
             /\ \A i \in 1..Len(commits) :
                   /\ DOMAIN result[i] = DOMAIN commits[i] \cup {"original_message"}
                   /\ result[i].hash = commits[i].hash
                   /\ result[i].author = commits[i].author
                   /\ result[i].date = commits[i].date
                   /\ result[i].original_message = commits[i].message
        ELSE result = commits /\ world.netCalls = <<>> /\ world.printed = <<>>

\* two commits were enhanced: the first message was rewritten, the second
\* request failed and its message was kept
C10_Witness ==
    /\ pc = "enhanced" /\ self.use_llm /\ Len(commits) = 2 /\ Len(world.netCalls) = 2
    /\ result[1].message # commits[1].message
    /\ result[2].message = commits[2].message
    /\ result[1].hash # result[2].hash

\* t is s without its leading and trailing whitespace
IsTrimOf(t, s) ==
    /\ t # <<>> => t[1] \notin Whitespace /\ t[Len(t)] \notin Whitespace
    /\ \E a \in 0..Len(s) :
          /\ a + Len(t) <= Len(s)
          /\ SubSeq(s, a + 1, a + Len(t)) = t
          /\ \A i \in (1..a) \cup ((a + Len(t) + 1)..Len(s)) : s[i] \in Whitespace

GoodResponse(o) == o.kind = "response" /\ o.status = 200 /\ o.wellformed

\* C4: the enhancer never raises and degrades to passthrough:
\* enhance_commit_message(m) is m when no credential is configured (and then no
\* request is made), when the status is not 200 and when the request or the
\* parsing raises, and the trimmed response text on a well-formed 200;
\* generate_summary is empty with no credential, with no commits, on another
\* status and on any failure.
C4_EnhancerDegrades ==
    /\ pc \in {"rewritten", "summarized"} => world.raised = "none"
    /\ pc = "rewritten" =>
          IF ~Truthy(self.llm.api_key) THEN result = commits[1].message /\ world.netCalls = <<>>
          ELSE /\ Len(world.netCalls) = 1
               /\ IF GoodResponse(env.net[1]) THEN IsTrimOf(result, env.net[1].content)
                  ELSE result = commits[1].message
    /\ pc = "summarized" =>
          IF ~Truthy(self.llm.api_key) \/ commits = <<>> THEN result = <<>> /\ world.netCalls = <<>>
          ELSE /\ Len(world.netCalls) = 1
               /\ IF GoodResponse(env.net[1]) THEN IsTrimOf(result, env.net[1].content)
                  ELSE result = <<>>

\* a well-formed 200 came back with padding around the text, and the message
\* was replaced by the text without the padding
C4_Witness ==
    /\ pc = "rewritten" /\ Truthy(self.llm.api_key) /\ GoodResponse(env.net[1])
    /\ result # commits[1].message
    /\ result # env.net[1].content /\ result # <<>>

====
